---- MODULE Spec2Model ----
(***************************************************************************)
(* Subscriber lifecycle of zero2prod: POST /subscriptions (subscribe),     *)
(* GET /subscriptions/confirm (confirm) and POST /newsletters              *)
(* (publish_newletter), over a Postgres store with the tables              *)
(* subscriptions, subscription_tokens and users.                           *)
(*                                                                         *)
(* Strings are sequences of one-character strings.  A subscriber name is   *)
(* a sequence of runs [c, n]: the character c repeated n times, as the     *)
(* unit tests build their names ("s".repeat(257)).                         *)
(***************************************************************************)
EXTENDS Integers, Sequences, FiniteSets, TLC

VARIABLES
    subscriptions,        \* committed rows of table subscriptions: id -> [email, name, status]
    subscription_tokens,  \* committed rows of table subscription_tokens
    users,                \* rows of table users
    received,             \* number of requests received so far
    calls,                \* the calls in flight: request number -> its handler's state
    last,                 \* the call that returned last, as it ended
    parse_call,           \* SubscriberName::parse under test (SpecParse)
    browser               \* the cookies of the client: its session and flash messages

vars == <<subscriptions, subscription_tokens, users, received, calls, last, parse_call, browser>>

----------------------------------------------------------------------------
(* Bounds *)

MaxCalls == 3         \* requests received in one behaviour, all of them concurrent
MaxRuns == 2          \* runs in a name handed to SubscriberName::parse

Calls == 1..MaxCalls
\* Uuid::new_v4() and generate_subscription_token() draw a value that no
\* row holds and that is never drawn again; which one is immaterial, so the
\* k-th request draws the k-th id and the k-th token.  The row the store may
\* start with holds SeedId and SeedToken; the empty string is no token.
new_v4(k) == k
SeedId == MaxCalls + 1

\* Alphanumeric.sample_string(&mut rand::thread_rng(), 25): a string of 25
\* characters, here 25 times the character that stands for the n-th draw
TokenLength == 25
sample_string(n, len) == [i \in 1..len |-> ToString(n)]

generate_subscription_token(k) == sample_string(MaxCalls + 1 + k, TokenLength)
SeedToken == 2 * MaxCalls + 2

----------------------------------------------------------------------------
(* src/domain.rs: SubscriberName *)

MaxNameGraphemes == 256

ForbiddenCharacters == {"/", "(", ")", "\"", "<", ">", "\\", ";", "{", "}"}

Whitespace == {" "}

NameChars == {"s", " ", "<"}
RunLengths == {1, 255, 256, 257}
Runs == [c : NameChars, n : RunLengths]

RECURSIVE SeqsUpTo(_, _)
SeqsUpTo(S, k) ==
    IF k = 0 THEN {<<>>}
    ELSE LET shorter == SeqsUpTo(S, k - 1)
         IN  shorter \cup {Append(s, x) : s \in {t \in shorter : Len(t) = k - 1}, x \in S}

NameInputs == SeqsUpTo(Runs, MaxRuns)

\* s.graphemes(true).count(): every character of NameChars is a grapheme
\* cluster of its own
RECURSIVE graphemes_count(_)
graphemes_count(s) ==
    IF s = <<>> THEN 0 ELSE Head(s).n + graphemes_count(Tail(s))

\* s.trim().is_empty()
is_empty_or_whitespace(s) == \A i \in 1..Len(s) : s[i].c \in Whitespace

is_too_long(s) == graphemes_count(s) > MaxNameGraphemes

contains_forbidden_characters(s) ==
    \E i \in 1..Len(s) : s[i].c \in ForbiddenCharacters

\* SubscriberName::parse: Ok(Self(s)) for a valid name, panic! otherwise
SubscriberName_parse(s) ==
    IF is_empty_or_whitespace(s) \/ is_too_long(s) \/ contains_forbidden_characters(s)
    THEN [kind |-> "panic"]
    ELSE [kind |-> "Ok", value |-> s]

----------------------------------------------------------------------------
(* src/domain/subscriber_email.rs: SubscriberEmail *)

\* validate_email of the validator crate: one '@' with a non-empty user
\* part before it and a non-empty domain after it
validate_email(s) ==
    \E i \in 1..Len(s) :
        /\ s[i] = "@"
        /\ i > 1
        /\ i < Len(s)
        /\ \A j \in 1..Len(s) : s[j] = "@" => j = i

SubscriberEmail_parse(s) ==
    IF validate_email(s)
    THEN [kind |-> "Ok", value |-> s]
    ELSE [kind |-> "Err"]

----------------------------------------------------------------------------
(* src/authentication/password.rs: password hashes in PHC string format *)

\* "$argon2id$v=19$m=15000,t=2,p=1$<salt>$<output>" as the sequence of its
\* fields: the algorithm and its parameters, the salt, the length of the
\* base64 output field, then the output.  Argon2 is taken to be injective:
\* the output of a password under a salt stands for that password, and only
\* verify_password_hash looks inside it.
Argon2id == "$argon2id$v=19$m=15000,t=2,p=1"

PHC(salt, output_len, output) == <<Argon2id, salt, output_len>> \o output

\* Argon2::new(Argon2id, V0x13, Params::new(15000, 2, 1, None)).hash_password:
\* 32 bytes of output, 43 characters of unpadded base64
hash_password(password, salt) == PHC(salt, "43", password)

\* the number of characters of an output field
OutputChars(output_len) == IF output_len = "43" THEN 43 ELSE 41

\* PasswordHash::new: the fields are there and the output field decodes as
\* unpadded base64, which a field of 4n + 1 characters never does
PasswordHash_new(s) ==
    IF /\ Len(s) >= 3
       /\ s[1] = Argon2id
       /\ s[3] \in {"41", "43"}
       /\ OutputChars(s[3]) % 4 # 1
    THEN [kind |-> "Ok", salt |-> s[2], output_len |-> s[3]]
    ELSE [kind |-> "Err", salt |-> "", output_len |-> ""]

\* Argon2::default().verify_password: hash the candidate with the salt and
\* the parameters of the expected hash and compare the outputs
verify_password(candidate, parsed, expected_password_hash) ==
    PHC(parsed.salt, parsed.output_len, candidate) = expected_password_hash

\* the hash validate_credentials verifies against when the username is
\* unknown; its password is not one a request of the model carries
ReferenceSalt == "gZiV/M1gPc22ElAH/Jh1Hw"
password_expected_password_hash == PHC(ReferenceSalt, "43", <<"?">>)
\* src/authentication.rs: the same constant with an output field of 41
\* characters
authentication_expected_password_hash == PHC(ReferenceSalt, "41", <<"?">>)

----------------------------------------------------------------------------
(* Request inputs *)

NameLeGuin == <<[c |-> "s", n |-> 1]>>
NameEmpty == <<>>
NameForbidden == <<[c |-> "s", n |-> 1], [c |-> "<", n |-> 1]>>
FormNames == {NameLeGuin, NameEmpty, NameForbidden}

EmailUrsula == <<"u", "@", "d">>
EmailBroken == <<"u", "d">>
EmailNone == <<>>
FormEmails == {EmailUrsula, EmailBroken, EmailNone}
\* the forms of the tests: a valid one, and those with one invalid field
Forms ==
    {[name |-> name, email |-> email] : name \in FormNames, email \in {EmailUrsula}}
        \cup {[name |-> name, email |-> email] :
                  name \in {NameLeGuin}, email \in FormEmails}
\* the address of a subscriber the store may start with
EmailOther == <<"v", "@", "d">>

----------------------------------------------------------------------------
(* The store at start-up: the database outlives the process, so the        *)
(* application starts on whatever rows it holds.                           *)

EmptyRows == [id \in {} |-> 0]

ConfirmedRow(email) == [email |-> email, name |-> NameLeGuin, status |-> "confirmed"]

\* no row, or three confirmed subscribers, one of them with a stored email
\* that SubscriberEmail::parse rejects
SeedSubscriptions ==
    { EmptyRows,
      (SeedId :> ConfirmedRow(EmailUrsula)) @@ (SeedId + 1 :> ConfirmedRow(EmailBroken))
          @@ (SeedId + 2 :> ConfirmedRow(EmailOther)) }

SeedTokens(subs) ==
    {[subscription_token |-> sample_string(SeedToken + (id - SeedId), TokenLength),
      subscriber_id |-> id] :
        id \in DOMAIN subs}

\* tests/api/helpers.rs, TestUser::store: INSERT INTO users (user_id,
\* username, password_hash) with the Argon2id hash of the user's password
TestUser(user_id, username, password, salt) ==
    [user_id |-> user_id, username |-> username,
     password_hash |-> hash_password(password, salt)]

SeedUsers == {TestUser(1, <<"a">>, <<"p">>, "s0"), TestUser(2, <<"b">>, <<"q">>, "s0")}

----------------------------------------------------------------------------
(* src/routes/subscriptions.rs: subscribe *)

NoTx == [open |-> FALSE, subscriptions |-> EmptyRows, subscription_tokens |-> {}]

NoSubscriber == [email |-> <<>>, name |-> <<>>]

NewSubscribe ==
    [kind |-> "subscribe", pc |-> "try_into", form |-> NoSubscriber,
     new_subscriber |-> NoSubscriber,
     tx |-> NoTx, subscriber_id |-> 0, subscription_token |-> <<>>,
     response |-> "none", response_body |-> <<>>,
     failed_at |-> "none", sent |-> <<>>]

NoCall == [kind |-> "none", pc |-> "none"]

NoCalls == [k \in {} |-> NoCall]

At(k, kind, pc) == k \in DOMAIN calls /\ calls[k].kind = kind /\ calls[k].pc = pc

\* the handler of call k goes on
Step(k, call) ==
    /\ calls' = [calls EXCEPT ![k] = call]
    /\ UNCHANGED <<received, last>>

\* the handler of call k returns
Return(k, call) ==
    /\ calls' = [j \in DOMAIN calls \ {k} |-> calls[j]]
    /\ last' = call
    /\ UNCHANGED received

\* a request arrives and its handler runs up to its first await
Arrive(call) ==
    /\ received < MaxCalls
    /\ received' = received + 1
    /\ IF call.pc = "done"
       THEN last' = call /\ UNCHANGED calls
       ELSE calls' = (received + 1 :> call) @@ calls /\ UNCHANGED last

\* the message that .context(...) puts on the error of each step of
\* subscribe, which is what Display prints for the anyhow::Error
context(stage) ==
    CASE stage = "begin" -> "Failed to acquire a Postgres connection from the pool"
      [] stage = "insert_subscriber" -> "Failed to insert new subscriber into database"
      [] stage = "store_token" ->
             "Failed to store the confirmation token for a new subscriber."
      [] stage = "commit" -> "Failed to commit SQL transaction to store new subscriber."
      [] stage = "send_confirmation_email" -> "Failed to send confirmation email."

\* impl ResponseError for SubscribeError overrides status_code only: the
\* response is the provided error_response, whose body is the Display of
\* the error.  ValidationError prints its string, UnexpectedError is
\* transparent over the anyhow::Error.
SubscribeError_body(e, message) == message

\* Variant: the rows written so far survive the early return
ReturnError_NoRollback(k, stage) ==
    /\ Return(k, [calls[k] EXCEPT !.pc = "done", !.tx = NoTx,
                                  !.response = "500", !.failed_at = stage,
                                  !.response_body =
                                      SubscribeError_body("UnexpectedError",
                                                          <<context(stage)>>)])
    /\ subscriptions' = calls[k].tx.subscriptions @@ subscriptions
    /\ subscription_tokens' = subscription_tokens \cup calls[k].tx.subscription_tokens

\* an early return with `?`: the Transaction is dropped, which rolls it back
ReturnError(k, stage) ==
    /\ Return(k, [calls[k] EXCEPT !.pc = "done", !.tx = NoTx,
                                  !.response = "500", !.failed_at = stage,
                                  !.response_body =
                                      SubscribeError_body("UnexpectedError",
                                                          <<context(stage)>>)])
    /\ UNCHANGED <<subscriptions, subscription_tokens>>

\* TryFrom<FormData> for NewSubscriber, and the map_err of subscribe
try_into(name, email) ==
    LET n == SubscriberName_parse(name)
        e == SubscriberEmail_parse(email)
        form == [NewSubscribe EXCEPT !.form = [email |-> email, name |-> name]]
    IN  IF n.kind = "panic"
        THEN [form EXCEPT !.pc = "done", !.response = "panic", !.failed_at = "try_into"]
        ELSE IF e.kind = "Err"
        THEN [form EXCEPT !.pc = "done", !.response = "400", !.failed_at = "try_into",
                          !.response_body =
                              SubscribeError_body("ValidationError",
                                  email \o <<" is not a valid subscriber email.">>)]
        ELSE [form EXCEPT !.pc = "begin",
                          !.new_subscriber = [email |-> e.value, name |-> n.value]]

\* POST /subscriptions arrives with a form that has both fields
Subscribe_TryInto(name, email) ==
    /\ Arrive(try_into(name, email))
    /\ UNCHANGED <<subscriptions, subscription_tokens, users, parse_call, browser>>

\* pool.begin()
Subscribe_Begin(k) ==
    /\ At(k, "subscribe", "begin")
    /\ \/ /\ Step(k, [calls[k] EXCEPT !.pc = "insert_subscriber", !.tx.open = TRUE])
          /\ UNCHANGED <<subscriptions, subscription_tokens>>
       \/ ReturnError(k, "begin")
    /\ UNCHANGED <<users, parse_call, browser>>

PendingRow(new_subscriber) ==
    [email |-> new_subscriber.email, name |-> new_subscriber.name,
     status |-> "pending_confirmation"]

\* Variant: the INSERT runs on the pool, outside the transaction
insert_subscriber_on_pool(k, id) ==
    /\ Step(k, [calls[k] EXCEPT !.pc = "store_token", !.subscriber_id = id])
    /\ subscriptions' = (id :> PendingRow(calls[k].new_subscriber)) @@ subscriptions
    /\ UNCHANGED subscription_tokens

\* Variant: the row is inserted as 'confirmed'
insert_subscriber_confirmed(k, id) ==
    /\ Step(k, [calls[k] EXCEPT
                 !.pc = "store_token",
                 !.subscriber_id = id,
                 !.tx.subscriptions =
                     (id :> [PendingRow(calls[k].new_subscriber) EXCEPT
                                !.status = "confirmed"]) @@ @])
    /\ UNCHANGED <<subscriptions, subscription_tokens>>

\* Variant: an upsert on the email, which resets the row of a subscriber
\* who registers again
insert_subscriber_upsert(k, id) ==
    LET same == {j \in DOMAIN subscriptions :
                    subscriptions[j].email = calls[k].new_subscriber.email}
        target == IF same = {} THEN id ELSE CHOOSE j \in same : TRUE
    IN  /\ Step(k, [calls[k] EXCEPT
                     !.pc = "store_token",
                     !.subscriber_id = target,
                     !.tx.subscriptions =
                         (target :> PendingRow(calls[k].new_subscriber)) @@ @])
        /\ UNCHANGED <<subscriptions, subscription_tokens>>

\* INSERT INTO subscriptions ... 'pending_confirmation', on the transaction
insert_subscriber(k, id) ==
    /\ Step(k, [calls[k] EXCEPT
                 !.pc = "store_token",
                 !.subscriber_id = id,
                 !.tx.subscriptions = (id :> PendingRow(calls[k].new_subscriber)) @@ @])
    /\ UNCHANGED <<subscriptions, subscription_tokens>>

Subscribe_InsertSubscriber(k) ==
    /\ At(k, "subscribe", "insert_subscriber")
    /\ \/ insert_subscriber(k, new_v4(k))
       \/ ReturnError(k, "insert_subscriber")
    /\ UNCHANGED <<users, parse_call, browser>>

\* INSERT INTO subscription_tokens, on the transaction
store_token(k, subscriber_id, token) ==
    /\ Step(k, [calls[k] EXCEPT
                 !.pc = "commit",
                 !.subscription_token = token,
                 !.tx.subscription_tokens =
                     @ \cup {[subscription_token |-> token, subscriber_id |-> subscriber_id]}])
    /\ UNCHANGED <<subscriptions, subscription_tokens>>

\* generate_subscription_token, then store_token
Subscribe_StoreToken(k) ==
    /\ At(k, "subscribe", "store_token")
    /\ \/ store_token(k, calls[k].subscriber_id, generate_subscription_token(k))
       \/ ReturnError(k, "store_token")
    /\ UNCHANGED <<users, parse_call, browser>>

\* Variant: the email is sent before the commit, the transaction still open
commit_after_send(k) ==
    /\ Step(k, [calls[k] EXCEPT !.pc = "send_confirmation_email"])
    /\ UNCHANGED <<subscriptions, subscription_tokens>>

\* transaction.commit(): the rows of the transaction become visible at once
commit(k) ==
    /\ subscriptions' = calls[k].tx.subscriptions @@ subscriptions
    /\ subscription_tokens' = subscription_tokens \cup calls[k].tx.subscription_tokens
    /\ Step(k, [calls[k] EXCEPT !.pc = "send_confirmation_email", !.tx = NoTx])

Subscribe_Commit(k) ==
    /\ At(k, "subscribe", "commit")
    /\ \/ commit(k)
       \/ ReturnError(k, "commit")
    /\ UNCHANGED <<users, parse_call, browser>>

\* web::Data<ApplicationBaseUrl>, the application.base_url of the
\* configuration; the tests require its host to be 127.0.0.1
ApplicationBaseUrl == "http://127.0.0.1"

\* Variant: the link carries no token
confirmation_link_without_token(base_url, subscription_token) ==
    <<base_url, "/subscriptions/confirm">>

\* format!("{}/subscriptions/confirm?subscription_token={}", base_url, token),
\* as the sequence of the pieces it is made of
confirmation_link(base_url, subscription_token) ==
    <<base_url, "/subscriptions/confirm?subscription_token=">> \o subscription_token

plain_body(link) ==
    <<"Welcome to our newletter!\nPlease visit ">>
        \o link \o <<" to confirm your subscription.">>

html_body(link) ==
    <<"Welcome to our newletter!<br/> Click <a href=\"">>
        \o link \o <<"\"</a> to confirm your subscription.">>

\* send_confirmation_email: the request handed to EmailClient::send_email
confirmation_email(new_subscriber, token) ==
    LET link == confirmation_link(ApplicationBaseUrl, token)
    IN  [to |-> new_subscriber.email,
         subject |-> <<"Hi ">> \o new_subscriber.name \o <<",">>,
         html_body |-> html_body(link),
         text_body |-> plain_body(link)]

\* Variant: a failed send undoes the subscription
send_confirmation_email_undo(k, ok) ==
    /\ Return(k, IF ok
                 THEN [calls[k] EXCEPT
                          !.pc = "done", !.response = "200",
                          !.sent = Append(@, confirmation_email(calls[k].new_subscriber,
                                                                calls[k].subscription_token))]
                 ELSE [calls[k] EXCEPT
                          !.pc = "done", !.response = "500",
                          !.failed_at = "send_confirmation_email",
                          !.response_body =
                              SubscribeError_body("UnexpectedError",
                                  <<context("send_confirmation_email")>>)])
    /\ IF ok
       THEN UNCHANGED <<subscriptions, subscription_tokens>>
       ELSE /\ subscriptions' = [id \in DOMAIN subscriptions \ {calls[k].subscriber_id} |->
                                    subscriptions[id]]
            /\ subscription_tokens' =
                   {t \in subscription_tokens : t.subscriber_id # calls[k].subscriber_id}

\* the tail of subscribe: send_confirmation_email(...).await.context(...)?
send_confirmation_email(k, ok) ==
    /\ Return(k, IF ok
                 THEN [calls[k] EXCEPT
                          !.pc = "done", !.response = "200",
                          !.sent = Append(@, confirmation_email(calls[k].new_subscriber,
                                                                calls[k].subscription_token))]
                 ELSE [calls[k] EXCEPT
                          !.pc = "done", !.response = "500",
                          !.failed_at = "send_confirmation_email",
                          !.response_body =
                              SubscribeError_body("UnexpectedError",
                                  <<context("send_confirmation_email")>>)])
    /\ UNCHANGED <<subscriptions, subscription_tokens>>

Subscribe_SendConfirmationEmail(k) ==
    /\ At(k, "subscribe", "send_confirmation_email")
    /\ \E ok \in BOOLEAN : send_confirmation_email(k, ok)
    /\ UNCHANGED <<users, parse_call, browser>>

----------------------------------------------------------------------------
(* src/routes/subscriptions_confirm.rs: confirm *)

\* the query string of GET /subscriptions/confirm: web::Query<Parameters>
\* needs subscription_token, any string; the empty string is no token
\* the tokens a request can carry: 0, and those the store holds for the
\* subscribers that registered and for the first it started with
ConfirmQueries ==
    [present : {TRUE},
     subscription_token :
         {<<>>} \cup {t.subscription_token :
                      t \in {u \in subscription_tokens : u.subscriber_id <= SeedId}}]
        \cup {[present |-> FALSE, subscription_token |-> <<>>]}

\* the handler ignores its parameters: HttpResponse::Ok().finish()
confirm(query) ==
    /\ Arrive([kind |-> "confirm", pc |-> "done", query |-> query, response |-> "200"])
    /\ UNCHANGED <<subscriptions, subscription_tokens>>

\* GET /subscriptions/confirm arrives; the extractor answers 400 when
\* subscription_token is missing
Confirm(query) ==
    /\ IF query.present
       THEN confirm(query)
       ELSE /\ Arrive([kind |-> "confirm", pc |-> "done", query |-> query,
                       response |-> "400"])
            /\ UNCHANGED <<subscriptions, subscription_tokens>>
    /\ UNCHANGED <<users, parse_call, browser>>

----------------------------------------------------------------------------
(* src/routes/newsletters.rs: publish_newletter *)

Challenge == "Basic realm=\"publish\""

\* an Authorization header: to_str() succeeds or not, the scheme prefix, the
\* base64 segment decodes or not, the bytes are UTF-8 or not, and the
\* decoded text
Header(present, to_str_ok, scheme, base64_ok, utf8_ok, decoded) ==
    [present |-> present, to_str_ok |-> to_str_ok, scheme |-> scheme,
     base64_ok |-> base64_ok, utf8_ok |-> utf8_ok, decoded |-> decoded]

\* headers that carry no credentials: no header, a value that is no
\* string, another scheme, no base64, no UTF-8, a text without ':'
UndecodableHeaders ==
    { Header(FALSE, TRUE, "Basic ", TRUE, TRUE, <<>>),
      Header(TRUE, FALSE, "Basic ", TRUE, TRUE, <<>>),
      Header(TRUE, TRUE, "Bearer ", TRUE, TRUE, <<"a", ":", "p">>),
      Header(TRUE, TRUE, "Basic ", FALSE, TRUE, <<>>),
      Header(TRUE, TRUE, "Basic ", TRUE, FALSE, <<>>),
      Header(TRUE, TRUE, "Basic ", TRUE, TRUE, <<"a">>) }

\* user a with its password, and with the hash the store holds for it
OperatorHeaders ==
    { Header(TRUE, TRUE, "Basic ", TRUE, TRUE, <<"a", ":", "p">>),
      Header(TRUE, TRUE, "Basic ", TRUE, TRUE,
             <<"a", ":">> \o hash_password(<<"p">>, "s0")) }

\* user a with a wrong password, and a username without a row
RefusedHeaders ==
    { Header(TRUE, TRUE, "Basic ", TRUE, TRUE, <<"a", ":", "q">>),
      Header(TRUE, TRUE, "Basic ", TRUE, TRUE, <<"z", ":", "p">>) }

AuthorizationHeaders == UndecodableHeaders \cup OperatorHeaders \cup RefusedHeaders

\* decoded_credentials.splitn(2, ':')
splitn2(s) ==
    LET colons == {i \in 1..Len(s) : s[i] = ":"}
    IN  IF colons = {} THEN <<s>>
        ELSE LET i == CHOOSE j \in colons : \A l \in colons : j <= l
             IN  <<SubSeq(s, 1, i - 1), SubSeq(s, i + 1, Len(s))>>

NoCredentials == [kind |-> "Err", username |-> <<>>, password |-> <<>>]

basic_authentication(h) ==
    IF ~h.present \/ ~h.to_str_ok \/ h.scheme # "Basic " \/ ~h.base64_ok \/ ~h.utf8_ok
    THEN NoCredentials
    ELSE LET credentials == splitn2(h.decoded)
         IN  IF Len(credentials) < 2
             THEN NoCredentials
             ELSE [kind |-> "Ok", username |-> credentials[1], password |-> credentials[2]]

\* Variant: the 401 carries no WWW-Authenticate header
error_response_no_challenge(e) ==
    IF e = "AuthError"
    THEN [status |-> "401", www_authenticate |-> "none"]
    ELSE [status |-> "500", www_authenticate |-> "none"]

\* Variant: every error is answered as an authentication failure
error_response_unauthorized(e) ==
    [status |-> "401", www_authenticate |-> Challenge]

\* PublishError::error_response
error_response(e) ==
    IF e = "AuthError"
    THEN [status |-> "401", www_authenticate |-> Challenge]
    ELSE [status |-> "500", www_authenticate |-> "none"]

NoHeader == Header(FALSE, TRUE, "Basic ", TRUE, TRUE, <<>>)

\* the JSON document of a POST /newsletters request: which members it has
\* and the strings they hold
Json(has_title, title, has_content, html, text) ==
    [has_title |-> has_title, title |-> title, has_content |-> has_content,
     html |-> html, text |-> text]

\* the body of the tests, which has every member and no empty string
IssueBody == Json(TRUE, <<"T">>, TRUE, <<"h">>, <<"t">>)

\* the two bodies of newsletters_returns_400_for_invalid_data, and the
\* bodies that have every member with one string empty
IssueBodies ==
    { IssueBody,
      Json(FALSE, <<>>, TRUE, <<"h">>, <<"t">>),
      Json(TRUE, <<"T">>, FALSE, <<>>, <<>>),
      Json(TRUE, <<>>, TRUE, <<"h">>, <<"t">>),
      Json(TRUE, <<"T">>, TRUE, <<>>, <<"t">>),
      Json(TRUE, <<"T">>, TRUE, <<"h">>, <<>>) }

NoBodyData == [kind |-> "Err", title |-> <<>>, content |-> [html |-> <<>>, text |-> <<>>]]

\* web::Json<BodyData>: serde's derived Deserialize needs the members
\* title and content and takes any string for them
BodyData(json) ==
    IF ~json.has_title \/ ~json.has_content
    THEN NoBodyData
    ELSE [kind |-> "Ok", title |-> json.title,
          content |-> [html |-> json.html, text |-> json.text]]

NewPublish ==
    [kind |-> "publish", pc |-> "basic_authentication", header |-> NoHeader,
     json |-> IssueBody, body |-> NoBodyData, response_body |-> <<>>,
     credentials |-> NoCredentials,
     user_id |-> 0, subscribers |-> <<>>, sent |-> <<>>, skipped |-> 0,
     failed_at |-> "none", error |-> "none",
     response |-> [status |-> "none", www_authenticate |-> "none"]]

\* Variant: a failed authentication is logged and the handler goes on
PublishFails_authentication_ignored(k, e) ==
    IF e = "AuthError" /\ calls[k].pc = "validate_credentials"
    THEN Step(k, [calls[k] EXCEPT !.pc = "get_confirmed_subscribers", !.error = e])
    ELSE Return(k, [calls[k] EXCEPT !.pc = "done", !.subscribers = <<>>,
                                    !.failed_at = calls[k].pc, !.error = e,
                                    !.response = error_response(e)])

\* an early return with `?` out of publish_newletter
PublishFails(k, e) ==
    Return(k, [calls[k] EXCEPT !.pc = "done", !.subscribers = <<>>,
                               !.failed_at = calls[k].pc, !.error = e,
                               !.response = error_response(e)])

\* POST /newsletters arrives: the handler up to its first await
\* the extractor answers a body that does not deserialize with 400 and the
\* handler is not called
Publish_BasicAuthentication(h, json) ==
    /\ LET body == BodyData(json)
           credentials == basic_authentication(h)
           arrived == [NewPublish EXCEPT !.header = h, !.json = json, !.body = body]
       IN  IF body.kind = "Err"
           THEN Arrive([arrived EXCEPT !.pc = "done", !.failed_at = "Json",
                                       !.response.status = "400",
                                       !.response_body = <<"Json deserialize error">>])
           ELSE IF credentials.kind = "Err"
           THEN Arrive([arrived EXCEPT !.pc = "done",
                                       !.failed_at = "basic_authentication",
                                       !.error = "AuthError",
                                       !.response = error_response("AuthError")])
           ELSE Arrive([arrived EXCEPT !.pc = "validate_credentials",
                                       !.credentials = credentials])
    /\ UNCHANGED <<subscriptions, subscription_tokens, users, parse_call, browser>>

\* SELECT user_id FROM users WHERE username = $1 AND password = $2: the
\* credential column of users, which holds what TestUser::store and
\* change_password write, is compared with the password of the request
validate_credentials(credentials) ==
    LET rows == {u \in users : /\ u.username = credentials.username
                               /\ u.password_hash = credentials.password}
    IN  IF rows = {} THEN [kind |-> "AuthError", user_id |-> 0]
        ELSE [kind |-> "Ok", user_id |-> (CHOOSE u \in rows : TRUE).user_id]

Publish_ValidateCredentials(k) ==
    /\ At(k, "publish", "validate_credentials")
    /\ \/ LET r == validate_credentials(calls[k].credentials)
          IN  IF r.kind = "Ok"
              THEN Step(k, [calls[k] EXCEPT !.pc = "get_confirmed_subscribers",
                                            !.user_id = r.user_id])
              ELSE PublishFails(k, "AuthError")
       \/ PublishFails(k, "UnexpectedError")
    /\ UNCHANGED <<subscriptions, subscription_tokens, users, parse_call, browser>>

\* the orders in which fetch_all may return the rows of a set of ids
RECURSIVE Orders(_)
Orders(S) ==
    IF S = {} THEN {<<>>}
    ELSE UNION {{<<x>> \o t : t \in Orders(S \ {x})} : x \in S}

\* Variant: the SELECT has no WHERE clause
ConfirmedIds_any_status == DOMAIN subscriptions

\* Variant: the SELECT has a LIMIT 1
ConfirmedIds_limit_1 ==
    LET ids == {id \in DOMAIN subscriptions : subscriptions[id].status = "confirmed"}
    IN  {id \in ids : \A other \in ids : id <= other}

ConfirmedIds == {id \in DOMAIN subscriptions : subscriptions[id].status = "confirmed"}

\* Variant: the rows the publish call that returned last has sent to are
\* left out, as if deliveries were recorded
get_confirmed_subscribers_undelivered(order) ==
    LET delivered == IF last.kind = "publish"
                     THEN {last.sent[i] : i \in 1..Len(last.sent)} ELSE {}
        rows == SelectSeq(order, LAMBDA id : subscriptions[id].email \notin delivered)
    IN  [i \in 1..Len(rows) |-> SubscriberEmail_parse(subscriptions[rows[i]].email)]

\* SELECT email FROM subscriptions WHERE status = 'confirmed', each row
\* mapped through SubscriberEmail::parse
get_confirmed_subscribers(order) ==
    [i \in 1..Len(order) |-> SubscriberEmail_parse(subscriptions[order[i]].email)]

Publish_GetConfirmedSubscribers(k) ==
    /\ At(k, "publish", "get_confirmed_subscribers")
    /\ \/ \E order \in Orders(ConfirmedIds) :
            Step(k, [calls[k] EXCEPT !.pc = "send_email",
                                     !.subscribers = get_confirmed_subscribers(order)])
       \/ PublishFails(k, "UnexpectedError")
    /\ UNCHANGED <<subscriptions, subscription_tokens, users, parse_call, browser>>

\* Variant: a send that fails is logged and the loop goes on
send_newsletter_continue(k, ok) ==
    IF calls[k].subscribers = <<>>
    THEN Return(k, [calls[k] EXCEPT
                       !.pc = "done",
                       !.response = [status |-> "200", www_authenticate |-> "none"]])
    ELSE LET subscriber == Head(calls[k].subscribers)
         IN  IF subscriber.kind = "Err" \/ ~ok
             THEN Step(k, [calls[k] EXCEPT !.subscribers = Tail(@), !.skipped = @ + 1])
             ELSE Step(k, [calls[k] EXCEPT !.subscribers = Tail(@),
                                           !.sent = Append(@, subscriber.value)])

\* Variant: a row whose email does not parse ends the call with `?`
send_newsletter_strict(k, ok) ==
    IF calls[k].subscribers = <<>>
    THEN Return(k, [calls[k] EXCEPT
                       !.pc = "done",
                       !.response = [status |-> "200", www_authenticate |-> "none"]])
    ELSE LET subscriber == Head(calls[k].subscribers)
         IN  IF subscriber.kind = "Err" \/ ~ok
             THEN PublishFails(k, "UnexpectedError")
             ELSE Step(k, [calls[k] EXCEPT !.subscribers = Tail(@),
                                           !.sent = Append(@, subscriber.value)])

\* one turn of `for subscriber in subscribers`, or the Ok after the loop
send_newsletter(k, ok) ==
    IF calls[k].subscribers = <<>>
    THEN Return(k, [calls[k] EXCEPT
                       !.pc = "done",
                       !.response = [status |-> "200", www_authenticate |-> "none"]])
    ELSE LET subscriber == Head(calls[k].subscribers)
         IN  IF subscriber.kind = "Err"
             THEN Step(k, [calls[k] EXCEPT !.subscribers = Tail(@), !.skipped = @ + 1])
             ELSE IF ok
             THEN Step(k, [calls[k] EXCEPT !.subscribers = Tail(@),
                                           !.sent = Append(@, subscriber.value)])
             ELSE PublishFails(k, "UnexpectedError")

\* Variant: a send is recorded on the rows of the confirmed subscribers
Publish_SendEmail_recorded(k) ==
    /\ At(k, "publish", "send_email")
    /\ \E ok \in BOOLEAN : send_newsletter(k, ok)
    /\ subscriptions' =
           [id \in DOMAIN subscriptions |->
               IF subscriptions[id].status = "confirmed"
               THEN [subscriptions[id] EXCEPT !.status = "delivered"]
               ELSE subscriptions[id]]
    /\ UNCHANGED <<subscription_tokens, users, parse_call, browser>>

Publish_SendEmail(k) ==
    /\ At(k, "publish", "send_email")
    /\ \E ok \in BOOLEAN : send_newsletter(k, ok)
    /\ UNCHANGED <<subscriptions, subscription_tokens, users, parse_call, browser>>

----------------------------------------------------------------------------
(* src/authentication.rs and src/authentication/password.rs:               *)
(* validate_credentials and change_password.  The two files hold the same  *)
(* validate_credentials but for the hash it falls back on.                 *)

Modules == {"authentication", "password"}

\* let mut expected_password_hash = Secret::new("$argon2id$...")
expected_password_hash(module) ==
    IF module = "authentication" THEN authentication_expected_password_hash
    ELSE password_expected_password_hash

NoStoredCredentials == [found |-> FALSE, user_id |-> 0, password_hash |-> <<>>]

\* SELECT user_id, password_hash FROM users WHERE username = $1, fetch_optional
get_stored_credentials(username, pool) ==
    LET rows == {u \in pool : u.username = username}
    IN  IF rows = {} THEN NoStoredCredentials
        ELSE LET row == CHOOSE u \in rows : TRUE
             IN  [found |-> TRUE, user_id |-> row.user_id,
                  password_hash |-> row.password_hash]

\* verify_password_hash: a hash that does not parse is an UnexpectedError
\* (the `?` on an anyhow::Error), a mismatch is InvalidCredentials
verify_password_hash(expected, password_candidate) ==
    LET parsed == PasswordHash_new(expected)
    IN  IF parsed.kind = "Err" THEN "UnexpectedError"
        ELSE IF verify_password(password_candidate, parsed, expected) THEN "Ok"
        ELSE "InvalidCredentials"

\* what verify_password_hash has done when it returns
verify_password_hash_steps(expected) ==
    IF PasswordHash_new(expected).kind = "Err"
    THEN <<"PasswordHash::new">>
    ELSE <<"PasswordHash::new", "verify_password">>

AuthOk(user_id) == [kind |-> "Ok", user_id |-> user_id]
AuthErr(e) == [kind |-> e, user_id |-> 0]

\* Variant: Ok(user_id) for whatever password verifies, row or no row
validate_credentials_result_unchecked(found, user_id, expected, password) ==
    LET verified == verify_password_hash(expected, password)
    IN  IF verified # "Ok" THEN AuthErr(verified) ELSE AuthOk(user_id)

\* the tail of validate_credentials: the `??` on the verification, then
\* user_id.ok_or_else(..).map_err(AuthError::InvalidCredentials)
validate_credentials_result(found, user_id, expected, password) ==
    LET verified == verify_password_hash(expected, password)
    IN  IF verified # "Ok" THEN AuthErr(verified)
        ELSE IF found THEN AuthOk(user_id)
        ELSE AuthErr("InvalidCredentials")

\* validate_credentials of src/authentication/password.rs on the rows of
\* users in pool, when the query and the worker pool do not fail
password_validate_credentials(credentials, pool) ==
    LET stored == get_stored_credentials(credentials.username, pool)
    IN  validate_credentials_result(
            stored.found, stored.user_id,
            IF stored.found THEN stored.password_hash
            ELSE expected_password_hash("password"),
            credentials.password)

CredentialUsernames == {<<"a">>, <<"z">>}
CredentialPasswords == {<<"p">>, <<"q">>, <<"?">>}
\* the credentials of the calls: user a with its password and with another,
\* a username without a row with a password, and with the password of the
\* hash that stands in for a missing row
CredentialInputs ==
    {c \in [username : CredentialUsernames, password : CredentialPasswords] :
        \/ c.username = <<"a">> /\ c.password \in {<<"p">>, <<"q">>}
        \/ c.username = <<"z">> /\ c.password \in {<<"p">>, <<"?">>}}

NewValidate(module, credentials) ==
    [kind |-> "validate_credentials", module |-> module,
     pc |-> "get_stored_credentials", credentials |-> credentials,
     found |-> FALSE, user_id |-> 0,
     expected_password_hash |-> expected_password_hash(module),
     steps |-> <<>>, failed_at |-> "none", result |-> AuthErr("none")]

\* validate_credentials is called: it runs up to get_stored_credentials(..).await
Validate_Call(module, username, password) ==
    /\ Arrive(NewValidate(module, [kind |-> "Ok", username |-> username,
                                   password |-> password]))
    /\ UNCHANGED <<subscriptions, subscription_tokens, users, parse_call, browser>>

\* get_stored_credentials(&credentials.username, &pool).await?
Validate_GetStoredCredentials(k) ==
    /\ At(k, "validate_credentials", "get_stored_credentials")
    /\ \/ LET stored == get_stored_credentials(calls[k].credentials.username, users)
              steps == Append(calls[k].steps, "get_stored_credentials")
          IN  IF stored.found
              THEN Step(k, [calls[k] EXCEPT
                               !.pc = "spawn_blocking", !.steps = steps,
                               !.found = TRUE, !.user_id = stored.user_id,
                               !.expected_password_hash = stored.password_hash])
              ELSE Step(k, [calls[k] EXCEPT !.pc = "spawn_blocking", !.steps = steps])
       \/ Return(k, [calls[k] EXCEPT
                        !.pc = "done", !.failed_at = "get_stored_credentials",
                        !.steps = Append(@, "get_stored_credentials"),
                        !.result = AuthErr("UnexpectedError")])
    /\ UNCHANGED <<subscriptions, subscription_tokens, users, parse_call, browser>>

\* spawn_blocking_with_tracing(|| verify_password_hash(..)).await
\*     .context("Failed to spawn blocking task.")??, then the result
Validate_VerifyPasswordHash(k) ==
    /\ At(k, "validate_credentials", "spawn_blocking")
    /\ \/ Return(k, [calls[k] EXCEPT
                        !.pc = "done",
                        !.steps = @ \o <<"spawn_blocking">>
                                    \o verify_password_hash_steps(
                                           calls[k].expected_password_hash),
                        !.result = validate_credentials_result(
                                       calls[k].found, calls[k].user_id,
                                       calls[k].expected_password_hash,
                                       calls[k].credentials.password)])
       \/ Return(k, [calls[k] EXCEPT
                        !.pc = "done", !.failed_at = "spawn_blocking",
                        !.steps = Append(@, "spawn_blocking"),
                        !.result = AuthErr("UnexpectedError")])
    /\ UNCHANGED <<subscriptions, subscription_tokens, users, parse_call, browser>>

\* SaltString::generate(&mut rand::thread_rng()): a salt no hash holds yet;
\* which one is immaterial, so the k-th call draws the k-th salt
generate(k) == ToString(k)

\* compute_password_hash
compute_password_hash(password, salt) == hash_password(password, salt)

ChangePasswordUsers == {1, 3}
ChangePasswordPasswords == {<<"p">>, <<"q">>}
\* user 1 takes the password it has or another, and a user without a row
\* takes a password
ChangePasswordInputs ==
    {c \in [user_id : ChangePasswordUsers, password : ChangePasswordPasswords] :
        c.user_id = 1 \/ c.password = <<"q">>}

NewChangePassword(user_id, password) ==
    [kind |-> "change_password", pc |-> "compute_password_hash",
     user_id |-> user_id, password |-> password, password_hash |-> <<>>,
     failed_at |-> "none", result |-> "none"]

\* change_password is called: it runs up to spawn_blocking_with_tracing(..).await
ChangePassword_Call(user_id, password) ==
    /\ Arrive(NewChangePassword(user_id, password))
    /\ UNCHANGED <<subscriptions, subscription_tokens, users, parse_call, browser>>

\* spawn_blocking_with_tracing(|| compute_password_hash(password)).await?
ChangePassword_ComputePasswordHash(k) ==
    /\ At(k, "change_password", "compute_password_hash")
    /\ \/ Step(k, [calls[k] EXCEPT
                      !.pc = "execute",
                      !.password_hash = compute_password_hash(calls[k].password,
                                                              generate(k))])
       \/ Return(k, [calls[k] EXCEPT !.pc = "done", !.result = "Err",
                                     !.failed_at = "compute_password_hash"])
    /\ UNCHANGED <<subscriptions, subscription_tokens, users, parse_call, browser>>

\* Variant: the UPDATE has no WHERE clause
update_users_all(user_id, password_hash) ==
    {[u EXCEPT !.password_hash = password_hash] : u \in users}

\* UPDATE users SET password_hash = $1 WHERE user_id = $2
update_users(user_id, password_hash) ==
    {IF u.user_id = user_id THEN [u EXCEPT !.password_hash = password_hash] ELSE u :
        u \in users}

\* sqlx::query!(..).execute(pool).await.context(..)?; Ok(())
ChangePassword_Execute(k) ==
    /\ At(k, "change_password", "execute")
    /\ \/ /\ users' = update_users(calls[k].user_id, calls[k].password_hash)
          /\ Return(k, [calls[k] EXCEPT !.pc = "done", !.result = "Ok"])
       \/ /\ UNCHANGED users
          /\ Return(k, [calls[k] EXCEPT !.pc = "done", !.result = "Err",
                                        !.failed_at = "execute"])
    /\ UNCHANGED <<subscriptions, subscription_tokens, parse_call, browser>>

----------------------------------------------------------------------------
(* src/routes/login/post.rs and src/routes/login/get.rs: login and         *)
(* login_form, behind SessionMiddleware and FlashMessagesFramework.  The   *)
(* client keeps its cookies (cookie_store(true)) and follows no redirect.  *)

\* the session of the client: the key of its cookie, 0 when it has none,
\* and the user_id of the state stored under that key, 0 when absent
NoSession == [id |-> 0, user_id |-> 0]

NewBrowser == [session |-> NoSession, flash |-> <<>>]

\* Variant: the session keeps the key it came with
renew_keeps_key(session, k) == session

\* TypedSession::renew: the state moves under a key that was never used;
\* which one is immaterial, so the k-th request draws the k-th key
renew(session, k) == [session EXCEPT !.id = k]

\* TypedSession::insert_user_id: serialising a Uuid cannot fail, so the
\* map_err of login is never taken
insert_user_id(session, user_id) == [session EXCEPT !.user_id = user_id]

\* the Display of LoginError, after the match on AuthError
LoginError(e) ==
    IF e = "InvalidCredentials" THEN "Authentication Failed" ELSE "Something went wrong"

SeeOther(location) == [status |-> "303", location |-> location]

\* login calls the validate_credentials of crate::authentication
NewLogin ==
    [kind |-> "login", pc |-> "get_stored_credentials",
     credentials |-> NoCredentials, found |-> FALSE, user_id |-> 0,
     expected_password_hash |-> expected_password_hash("authentication"),
     result |-> AuthErr("none"), request_session |-> NoSession,
     session |-> NoSession, session_calls |-> <<>>,
     flash |-> <<>>, failed_at |-> "none",
     response |-> [status |-> "none", location |-> "none"]]

\* POST /login arrives with the session cookie of the client
Login_Call(username, password) ==
    /\ Arrive([NewLogin EXCEPT !.credentials = [kind |-> "Ok", username |-> username,
                                                password |-> password],
                               !.request_session = browser.session,
                               !.session = browser.session])
    /\ UNCHANGED <<subscriptions, subscription_tokens, users, parse_call, browser>>

\* login_redirect: FlashMessage::error(e.to_string()).send() and the 303
login_redirect(e) == [flash |-> <<LoginError(e)>>, response |-> SeeOther("/login")]

\* the match on the result of validate_credentials and the response.  The
\* session cookie is set when the session changed, the flash cookie is set
\* to the messages of this response, or removed when there are none.
login_returns(k, result, stage) ==
    /\ IF result.kind = "Ok"
       THEN LET session == insert_user_id(renew(calls[k].session, k), result.user_id)
            IN  /\ Return(k, [calls[k] EXCEPT
                                 !.pc = "done", !.result = result,
                                 !.session = session,
                                 !.session_calls = <<"renew", "insert_user_id">>,
                                 !.response = SeeOther("/admin/dashboard")])
                /\ browser' = [session |-> session, flash |-> <<>>]
       ELSE LET redirect == login_redirect(result.kind)
            IN  /\ Return(k, [calls[k] EXCEPT
                                 !.pc = "done", !.result = result,
                                 !.failed_at = stage,
                                 !.flash = redirect.flash,
                                 !.response = redirect.response])
                /\ browser' = [browser EXCEPT !.flash = redirect.flash]

\* validate_credentials: get_stored_credentials(..).await?
Login_GetStoredCredentials(k) ==
    /\ At(k, "login", "get_stored_credentials")
    /\ \/ LET stored == get_stored_credentials(calls[k].credentials.username, users)
          IN  /\ IF stored.found
                 THEN Step(k, [calls[k] EXCEPT
                                  !.pc = "spawn_blocking",
                                  !.found = TRUE, !.user_id = stored.user_id,
                                  !.expected_password_hash = stored.password_hash])
                 ELSE Step(k, [calls[k] EXCEPT !.pc = "spawn_blocking"])
              /\ UNCHANGED browser
       \/ login_returns(k, AuthErr("UnexpectedError"), "get_stored_credentials")
    /\ UNCHANGED <<subscriptions, subscription_tokens, users, parse_call>>

\* validate_credentials: the verification on the worker pool and the result,
\* then the rest of login, which does not await
Login_VerifyPasswordHash(k) ==
    /\ At(k, "login", "spawn_blocking")
    /\ \/ login_returns(k, validate_credentials_result(
                               calls[k].found, calls[k].user_id,
                               calls[k].expected_password_hash,
                               calls[k].credentials.password),
                        "verify_password_hash")
       \/ login_returns(k, AuthErr("UnexpectedError"), "spawn_blocking")
    /\ UNCHANGED <<subscriptions, subscription_tokens, users, parse_call>>

\* GET /login: login_form writes every incoming flash message into the
\* page; it sends none, so the response removes the flash cookie
LoginForm ==
    /\ Arrive([kind |-> "login_form", pc |-> "done",
               flash_messages |-> browser.flash,
               error_html |-> [i \in 1..Len(browser.flash) |->
                                  <<"<p><i>", browser.flash[i], "</i></p>">>],
               response |-> [status |-> "200", location |-> "none"]])
    /\ browser' = [browser EXCEPT !.flash = <<>>]
    /\ UNCHANGED <<subscriptions, subscription_tokens, users, parse_call>>

----------------------------------------------------------------------------
(* src/domain.rs: a call of SubscriberName::parse on its own *)

\* src/routes/subscriptions.rs: is_valid_name
is_valid_name(s) ==
    ~(is_empty_or_whitespace(s) \/ is_too_long(s) \/ contains_forbidden_characters(s))

NoParseCall == [pc |-> "none", name |-> <<>>, result |-> [kind |-> "none"]]

ParseName ==
    /\ parse_call.pc = "call"
    /\ parse_call' = [parse_call EXCEPT !.pc = "returned",
                                        !.result = SubscriberName_parse(parse_call.name)]
    /\ UNCHANGED <<subscriptions, subscription_tokens, users, received, calls, last,
                   browser>>

----------------------------------------------------------------------------
(* Specifications *)

Init ==
    /\ subscriptions \in SeedSubscriptions
    /\ subscription_tokens = SeedTokens(subscriptions)
    /\ users = SeedUsers
    /\ received = 0
    /\ calls = NoCalls
    /\ last = NoCall
    /\ parse_call = NoParseCall
    /\ browser = NewBrowser

Next ==
    \/ \E form \in Forms : Subscribe_TryInto(form.name, form.email)
    \/ \E k \in Calls : Subscribe_Begin(k)
    \/ \E k \in Calls : Subscribe_InsertSubscriber(k)
    \/ \E k \in Calls : Subscribe_StoreToken(k)
    \/ \E k \in Calls : Subscribe_Commit(k)
    \/ \E k \in Calls : Subscribe_SendConfirmationEmail(k)
    \/ \E query \in ConfirmQueries : Confirm(query)
    \/ \E h \in UndecodableHeaders \cup OperatorHeaders :
          Publish_BasicAuthentication(h, IssueBody)
    \/ \E k \in Calls : Publish_ValidateCredentials(k)
    \/ \E k \in Calls : Publish_GetConfirmedSubscribers(k)
    \/ \E k \in Calls : Publish_SendEmail(k)

Spec == Init /\ [][Next]_vars

InitParse ==
    /\ subscriptions = EmptyRows
    /\ subscription_tokens = {}
    /\ users = SeedUsers
    /\ received = 0
    /\ calls = NoCalls
    /\ last = NoCall
    /\ parse_call \in {[pc |-> "call", name |-> n, result |-> [kind |-> "none"]] :
                           n \in NameInputs}
    /\ browser = NewBrowser

NextParse == ParseName

SpecParse == InitParse /\ [][NextParse]_vars

\* validate_credentials and change_password called while publish requests
\* are served, on a store with two users and one confirmed subscriber
InitAuth ==
    /\ subscriptions = [id \in {SeedId} |-> ConfirmedRow(EmailUrsula)]
    /\ subscription_tokens = SeedTokens(subscriptions)
    /\ users = SeedUsers
    /\ received = 0
    /\ calls = NoCalls
    /\ last = NoCall
    /\ parse_call = NoParseCall
    /\ browser = NewBrowser

NextAuth ==
    \/ \E module \in Modules, c \in CredentialInputs :
          Validate_Call(module, c.username, c.password)
    \/ \E k \in Calls : Validate_GetStoredCredentials(k)
    \/ \E k \in Calls : Validate_VerifyPasswordHash(k)
    \/ \E c \in ChangePasswordInputs : ChangePassword_Call(c.user_id, c.password)
    \/ \E k \in Calls : ChangePassword_ComputePasswordHash(k)
    \/ \E k \in Calls : ChangePassword_Execute(k)
    \/ \E h \in OperatorHeaders \cup RefusedHeaders :
          Publish_BasicAuthentication(h, IssueBody)
    \/ \E k \in Calls : Publish_ValidateCredentials(k)
    \/ \E k \in Calls : Publish_GetConfirmedSubscribers(k)
    \/ \E k \in Calls : Publish_SendEmail(k)

SpecAuth == InitAuth /\ [][NextAuth]_vars

\* login requests and visits of the login page by one client
NextLogin ==
    \/ \E c \in CredentialInputs : Login_Call(c.username, c.password)
    \/ \E k \in Calls : Login_GetStoredCredentials(k)
    \/ \E k \in Calls : Login_VerifyPasswordHash(k)
    \/ LoginForm

SpecLogin == InitAuth /\ [][NextLogin]_vars

\* publish requests with each body, with and without credentials, on a
\* store with one confirmed subscriber
NextIssue ==
    \/ \E h \in OperatorHeaders \cup {NoHeader}, json \in IssueBodies :
          Publish_BasicAuthentication(h, json)
    \/ \E k \in Calls : Publish_ValidateCredentials(k)
    \/ \E k \in Calls : Publish_GetConfirmedSubscribers(k)
    \/ \E k \in Calls : Publish_SendEmail(k)

SpecIssue == InitAuth /\ [][NextIssue]_vars

----------------------------------------------------------------------------
(* Properties *)

IsLast(kind) == last.kind = kind

TokensOf(id) == {t \in subscription_tokens : t.subscriber_id = id}

Registered == {id \in DOMAIN subscriptions : id < SeedId}

\* C1: every subscriber row visible in the store has a confirmation token
\* bound to its id, whatever subscribe calls are in flight or have failed.
C1_SubscriberNeverWithoutToken ==
    \A id \in DOMAIN subscriptions : TokensOf(id) # {}

\* a call has committed its subscriber, a second has failed at store_token
\* after inserting its row, a third holds an uncommitted row
C1_Witness ==
    /\ Registered # {}
    /\ IsLast("subscribe") /\ last.failed_at = "store_token"
    /\ \E k \in DOMAIN calls :
          /\ calls[k].kind = "subscribe"
          /\ calls[k].pc = "store_token"
          /\ calls[k].subscriber_id \notin DOMAIN subscriptions

\* C2: when store_token fails, the call answers 500, sends no email, and
\* neither the subscriber row it inserted nor a token for it is in the store.
C2_StoreTokenFailureRollsBack ==
    (IsLast("subscribe") /\ last.failed_at = "store_token") =>
        /\ last.response = "500"
        /\ last.sent = <<>>
        /\ last.subscriber_id \notin DOMAIN subscriptions
        /\ TokensOf(last.subscriber_id) = {}

\* store_token failed after the row was inserted, while another subscriber
\* had been committed
C2_Witness ==
    /\ IsLast("subscribe") /\ last.failed_at = "store_token"
    /\ last.subscriber_id # 0
    /\ Registered # {}

\* the call k takes a step
Steps(k) == k \notin DOMAIN calls' \/ calls'[k] # calls[k]

StoreUnchanged == UNCHANGED <<subscriptions, subscription_tokens>>

TokensOfAfter(id) == {t \in subscription_tokens' : t.subscriber_id = id}

\* the store gains the pending row of call k and its token, and nothing else
AddsOneSubscriberAndToken(k) ==
    LET id == calls[k].subscriber_id
        token == [subscription_token |-> calls[k].subscription_token,
                  subscriber_id |-> id]
    IN  /\ id \notin DOMAIN subscriptions
        /\ DOMAIN subscriptions' = DOMAIN subscriptions \cup {id}
        /\ \A j \in DOMAIN subscriptions : subscriptions'[j] = subscriptions[j]
        /\ subscriptions'[id] = [email |-> calls[k].form.email,
                                 name |-> calls[k].form.name,
                                 status |-> "pending_confirmation"]
        /\ token \notin subscription_tokens
        /\ subscription_tokens' = subscription_tokens \cup {token}
        /\ TokensOfAfter(id) = {token}

\* C3: a subscribe call that answers 200 has added, at its commit, one row
\* with its name and email and status pending_confirmation and one token
\* bound to that row; no other step of the call changes the store.
C3_RegisterPersistsExactlyOne ==
    [][\A k \in DOMAIN calls :
          (calls[k].kind = "subscribe" /\ Steps(k)) =>
              /\ IF calls[k].pc = "commit" /\ k \in DOMAIN calls'
                 THEN AddsOneSubscriberAndToken(k)
                 ELSE StoreUnchanged
              /\ (k \notin DOMAIN calls' /\ last'.response = "200") =>
                    /\ calls[k].pc = "send_confirmation_email"
                    /\ calls[k].subscriber_id \in DOMAIN subscriptions'
                    /\ TokensOfAfter(calls[k].subscriber_id) # {}]_vars

\* a subscribe call has answered 200 and its row is in the store
C3_Witness ==
    /\ IsLast("subscribe") /\ last.response = "200"
    /\ last.subscriber_id \in DOMAIN subscriptions
    /\ subscriptions[last.subscriber_id].email = last.form.email

\* C4: when the confirmation email fails, the call answers 500 and the
\* committed subscriber stays, pending_confirmation, with its token.
C4_SendFailureKeepsSubscription ==
    (IsLast("subscribe") /\ last.failed_at = "send_confirmation_email") =>
        /\ last.response = "500"
        /\ last.subscriber_id \in DOMAIN subscriptions
        /\ subscriptions[last.subscriber_id] = PendingRow(last.new_subscriber)
        /\ TokensOf(last.subscriber_id) =
              {[subscription_token |-> last.subscription_token,
                subscriber_id |-> last.subscriber_id]}

\* the send failed while other calls are in flight
C4_Witness ==
    /\ IsLast("subscribe") /\ last.failed_at = "send_confirmation_email"
    /\ calls # NoCalls

InTransaction == {"insert_subscriber", "store_token", "commit"}

\* C5: the transaction is open exactly from begin to commit; a call that is
\* sending its email has committed and holds no transaction; a call that
\* failed at begin, at an insert or at commit has sent no email.
C5_TransactionClosedBeforeEmail ==
    /\ \A k \in DOMAIN calls :
          calls[k].kind = "subscribe" =>
              /\ calls[k].tx.open <=> calls[k].pc \in InTransaction
              /\ calls[k].sent = <<>>
              /\ calls[k].pc = "send_confirmation_email" =>
                    /\ calls[k].tx = NoTx
                    /\ calls[k].subscriber_id \in DOMAIN subscriptions
    /\ IsLast("subscribe") =>
          /\ ~last.tx.open
          /\ last.sent # <<>> => last.failed_at = "none"
          /\ last.failed_at \in {"begin"} \cup InTransaction => last.sent = <<>>

\* one call is sending its email while another is inside its transaction
C5_Witness ==
    \E k, j \in DOMAIN calls :
        /\ calls[k].kind = "subscribe" /\ calls[k].pc = "send_confirmation_email"
        /\ calls[j].kind = "subscribe" /\ calls[j].pc = "commit"

\* C6: a subscribe call with an invalid name or an invalid email answers
\* 400 and has begun no transaction, written no row and sent no email.
C6_InvalidFormIs400 ==
    (/\ IsLast("subscribe")
     /\ ~is_valid_name(last.form.name) \/ ~validate_email(last.form.email)) =>
        /\ last.response = "400"
        /\ last.failed_at = "try_into"
        /\ last.subscriber_id = 0
        /\ last.sent = <<>>

\* C7: SubscriberName::parse returns Ok for a name that is not blank, has at
\* most 256 graphemes and no forbidden character, and Err for any other.
C7_ParseReturnsOkOrErr ==
    parse_call.pc = "returned" =>
        parse_call.result.kind =
            IF /\ ~is_empty_or_whitespace(parse_call.name)
               /\ graphemes_count(parse_call.name) <= MaxNameGraphemes
               /\ ~contains_forbidden_characters(parse_call.name)
            THEN "Ok" ELSE "Err"

BoundTo(token) == {t.subscriber_id : t \in {u \in subscription_tokens :
                                               u.subscription_token = token}}

\* C8: confirm with the token of a subscriber answers 200 and that
\* subscriber is confirmed from then on.
C8_ConfirmSetsConfirmed ==
    (IsLast("confirm") /\ last.query.present) =>
        \A id \in BoundTo(last.query.subscription_token) :
            /\ last.response = "200"
            /\ subscriptions[id].status = "confirmed"

\* C9: confirm with a token bound to no subscriber is not answered with
\* success.
C9_UnknownTokenRejected ==
    (/\ IsLast("confirm")
     /\ last.query.present
     /\ BoundTo(last.query.subscription_token) = {}) =>
        last.response # "200"

\* C10: no step deletes a subscriber row, and a row's status stays as it is
\* or goes from pending_confirmation to confirmed.
C10_StatusOneWay ==
    [][\A id \in DOMAIN subscriptions :
          /\ id \in DOMAIN subscriptions'
          /\ \/ subscriptions'[id].status = subscriptions[id].status
             \/ /\ subscriptions[id].status = "pending_confirmation"
                /\ subscriptions'[id].status = "confirmed"]_vars

\* a confirmed subscriber is still confirmed after a second subscriber with
\* the same email registered, confirm was called with the new token, and a
\* publish call is sending
C10_Witness ==
    /\ SeedId \in DOMAIN subscriptions
    /\ subscriptions[SeedId].status = "confirmed"
    /\ IsLast("confirm") /\ last.query.present
    /\ \E id \in BoundTo(last.query.subscription_token) :
          /\ id \in Registered
          /\ subscriptions[id].email = subscriptions[SeedId].email
    /\ \E k \in DOMAIN calls : calls[k].kind = "publish" /\ calls[k].sent # <<>>

----------------------------------------------------------------------------
(* Properties of publish_newletter *)

\* the publish calls in flight, and the last one that returned if a publish
\* call returned last
PublishCalls ==
    {calls[k] : k \in {j \in DOMAIN calls : calls[j].kind = "publish"}}
        \cup (IF IsLast("publish") THEN {last} ELSE {})

\* the addresses of the subscribers whose status is confirmed
ConfirmedEmails ==
    {subscriptions[id].email :
        id \in {j \in DOMAIN subscriptions : subscriptions[j].status = "confirmed"}}

\* C11: a publish call sends only to addresses of subscribers whose status
\* is confirmed, and an authenticated publish call on a store without a
\* confirmed subscriber sends nothing and answers 200 unless the read of
\* the subscribers failed.
C11_OnlyConfirmedReceive ==
    /\ \A c \in PublishCalls :
          \A i \in 1..Len(c.sent) : c.sent[i] \in ConfirmedEmails
    /\ (IsLast("publish") /\ last.user_id # 0 /\ ConfirmedEmails = {}) =>
          /\ last.sent = <<>>
          /\ last.failed_at \in {"none", "get_confirmed_subscribers"}
          /\ last.failed_at = "none" => last.response.status = "200"

\* a subscriber is pending, none is confirmed, and an authenticated publish
\* call has answered 200 without a send
C11_Witness ==
    /\ \E id \in DOMAIN subscriptions :
          subscriptions[id].status = "pending_confirmation"
    /\ ConfirmedEmails = {}
    /\ IsLast("publish") /\ last.user_id # 0
    /\ last.response.status = "200" /\ last.sent = <<>>

\* C12: when a subscriber has registered, is the only subscriber, and
\* confirm has answered 200 for its token, the publish call that reads the
\* recipients from then on reads exactly that subscriber's address, which
\* is what it then sends to.
C12_RedeemedSubscriberReceives ==
    [][\A k \in DOMAIN calls :
          (/\ At(k, "publish", "get_confirmed_subscribers")
           /\ k \in DOMAIN calls' /\ calls'[k].pc = "send_email"
           /\ \A j \in DOMAIN calls : calls[j].kind # "subscribe"
           /\ IsLast("confirm") /\ last.query.present /\ last.response = "200") =>
              \A id \in BoundTo(last.query.subscription_token) :
                  (id \in Registered /\ DOMAIN subscriptions = {id}) =>
                      calls'[k].subscribers =
                          <<SubscriberEmail_parse(subscriptions[id].email)>>]_vars

\* publish call k is in its loop and the next row parsed as kind says
NextRecipientIs(k, kind) ==
    /\ At(k, "publish", "send_email")
    /\ calls[k].subscribers # <<>>
    /\ Head(calls[k].subscribers).kind = kind

PlainResponse(status) == [status |-> status, www_authenticate |-> "none"]

\* C13: a turn of the loop of publish for a valid recipient either sends to
\* that recipient alone and goes on to the next, or, when the send fails,
\* ends the call with 500 and with the sends made before: nothing is sent
\* to a later recipient and the failed send is not repeated.
C13_FirstFailedSendAborts ==
    [][\A k \in DOMAIN calls :
          (NextRecipientIs(k, "Ok") /\ Steps(k)) =>
              \/ /\ k \in DOMAIN calls'
                 /\ calls'[k].pc = "send_email"
                 /\ calls'[k].sent =
                        Append(calls[k].sent, Head(calls[k].subscribers).value)
                 /\ calls'[k].subscribers = Tail(calls[k].subscribers)
              \/ /\ k \notin DOMAIN calls'
                 /\ last'.kind = "publish"
                 /\ last'.error = "UnexpectedError"
                 /\ last'.response = PlainResponse("500")
                 /\ last'.sent = calls[k].sent
                 /\ last'.subscribers = <<>>]_vars

\* a publish call on three confirmed subscribers has ended with 500 at its
\* first send: no recipient was sent to, none was skipped before
C13_Witness ==
    /\ Cardinality(DOMAIN subscriptions) >= 3
    /\ IsLast("publish") /\ last.failed_at = "send_email"
    /\ last.response.status = "500"
    /\ last.sent = <<>> /\ last.skipped = 0

\* C14: a turn of the loop of publish for a row whose stored email does not
\* parse sends nothing and goes on to the next row, and the call answers
\* 200 once the rows are exhausted, whatever the number of rows skipped.
C14_InvalidStoredEmailSkipped ==
    [][\A k \in DOMAIN calls :
          /\ (NextRecipientIs(k, "Err") /\ Steps(k)) =>
                 /\ k \in DOMAIN calls'
                 /\ calls'[k].pc = "send_email"
                 /\ calls'[k].sent = calls[k].sent
                 /\ calls'[k].subscribers = Tail(calls[k].subscribers)
          /\ (At(k, "publish", "send_email") /\ calls[k].subscribers = <<>>
                  /\ Steps(k)) =>
                 /\ k \notin DOMAIN calls'
                 /\ last'.kind = "publish"
                 /\ last'.response = PlainResponse("200")
                 /\ last'.sent = calls[k].sent
                 /\ last'.skipped = calls[k].skipped]_vars

\* a publish call has answered 200 after it skipped the row with the
\* invalid email and sent to the two other confirmed subscribers
C14_Witness ==
    /\ IsLast("publish") /\ last.response.status = "200"
    /\ last.skipped = 1
    /\ Len(last.sent) = 2 /\ last.sent[1] # last.sent[2]

\* the Authorization header h yields no username and password: it is
\* missing, is not a string, has another scheme, is not base64, decodes to
\* bytes that are not UTF-8, or decodes to a text without ':'
Undecodable(h) ==
    \/ ~h.present
    \/ ~h.to_str_ok
    \/ h.scheme # "Basic "
    \/ ~h.base64_ok
    \/ ~h.utf8_ok
    \/ \A i \in 1..Len(h.decoded) : h.decoded[i] # ":"

----------------------------------------------------------------------------
(* Properties of validate_credentials and change_password *)

\* the validate_credentials call that returned last found no row for its
\* username, or found one whose hash is not that of its password, and
\* neither its query nor the worker pool failed
RejectedRun ==
    /\ IsLast("validate_credentials")
    /\ last.failed_at = "none"
    /\ \/ ~last.found
       \/ /\ Len(last.expected_password_hash) >= 3
          /\ last.expected_password_hash #
                 PHC(last.expected_password_hash[2], last.expected_password_hash[3],
                     last.credentials.password)

\* C16: validate_credentials returns InvalidCredentials for a username
\* without a row and for a known username with a wrong password alike, and
\* a publish call whose credentials are refused answers 401 with
\* WWW-Authenticate: Basic realm="publish" in either case.
C16_UnknownUserLikeWrongPassword ==
    /\ RejectedRun => last.result = [kind |-> "InvalidCredentials", user_id |-> 0]
    /\ (/\ IsLast("publish")
        /\ last.failed_at = "validate_credentials"
        /\ last.error = "AuthError") =>
           last.response = [status |-> "401", www_authenticate |-> "Basic realm=\"publish\""]

\* C17: a validate_credentials run for an unknown username and a run for a
\* known username with a wrong password take the same steps, one lookup and
\* one full hash verification on the worker pool, and end alike with
\* InvalidCredentials.
C17_VerificationUnconditional ==
    RejectedRun =>
        /\ last.steps = <<"get_stored_credentials", "spawn_blocking",
                          "PasswordHash::new", "verify_password">>
        /\ last.result.kind = "InvalidCredentials"

\* C18: when publish checks the credentials of a request and its query does
\* not fail, it accepts them exactly when validate_credentials of
\* src/authentication/password.rs accepts them on the same rows of users,
\* and with the same user id.
C18_PublishDelegatesToValidator ==
    [][\A k \in DOMAIN calls :
          (/\ At(k, "publish", "validate_credentials")
           /\ Steps(k)
           /\ ~(k \notin DOMAIN calls' /\ last'.error = "UnexpectedError")) =>
              LET validated == password_validate_credentials(calls[k].credentials, users)
              IN  IF validated.kind = "Ok"
                  THEN /\ k \in DOMAIN calls'
                       /\ calls'[k].pc = "get_confirmed_subscribers"
                       /\ calls'[k].user_id = validated.user_id
                  ELSE /\ k \notin DOMAIN calls'
                       /\ last'.error = "AuthError"]_vars

\* C19: a validate_credentials call whose verification could not be run on
\* the worker pool returns UnexpectedError and no user id, and a publish
\* call whose credential validation ended with UnexpectedError answers 500
\* without WWW-Authenticate, has read no subscriber and sent no email.
C19_DispatchFailureIsUnexpected ==
    /\ (IsLast("validate_credentials") /\ last.failed_at = "spawn_blocking") =>
           last.result = [kind |-> "UnexpectedError", user_id |-> 0]
    /\ \A c \in PublishCalls :
           (c.failed_at = "validate_credentials" /\ c.error = "UnexpectedError") =>
               /\ c.response = PlainResponse("500")
               /\ c.user_id = 0
               /\ c.subscribers = <<>>
               /\ c.sent = <<>>

\* the worker pool failed a validate_credentials call that had found the
\* row of its username and carried the password of that row's hash
C19_Witness ==
    /\ IsLast("validate_credentials") /\ last.failed_at = "spawn_blocking"
    /\ last.found
    /\ last.expected_password_hash =
           PHC(last.expected_password_hash[2], "43", last.credentials.password)

\* change_password call k ends with Ok in this step
ChangePasswordSucceeds(k) ==
    /\ At(k, "change_password", "execute")
    /\ k \notin DOMAIN calls'
    /\ last'.kind = "change_password" /\ last'.result = "Ok"

CredentialsOf(username, password) ==
    [kind |-> "Ok", username |-> username, password |-> password]

\* the passwords validate_credentials accepts for username on the rows of pool
AcceptedPasswords(username, pool) ==
    {password \in CredentialPasswords :
        password_validate_credentials(CredentialsOf(username, password), pool).kind = "Ok"}

\* C20 as stated: when change_password(user_id, new_password) succeeds,
\* validate_credentials accepts new_password for that user and returns its
\* id, returns InvalidCredentials for every password it accepted before,
\* and the rows of the other users are as they were.
C20_PasswordReplaced_AsStated ==
    [][\A k \in DOMAIN calls : ChangePasswordSucceeds(k) =>
          \A u \in users :
              IF u.user_id = calls[k].user_id
              THEN /\ password_validate_credentials(
                          CredentialsOf(u.username, calls[k].password), users')
                          = [kind |-> "Ok", user_id |-> u.user_id]
                   /\ \A previous \in AcceptedPasswords(u.username, users) :
                          password_validate_credentials(
                              CredentialsOf(u.username, previous), users')
                              = [kind |-> "InvalidCredentials", user_id |-> 0]
              ELSE u \in users']_vars

\* C20: when change_password(user_id, new_password) succeeds,
\* validate_credentials accepts new_password for that user and returns its
\* id, returns InvalidCredentials for every password it accepted before
\* that is not new_password, and the rows of the other users are as they were.
C20_PasswordReplaced ==
    [][\A k \in DOMAIN calls : ChangePasswordSucceeds(k) =>
          \A u \in users :
              IF u.user_id = calls[k].user_id
              THEN /\ password_validate_credentials(
                          CredentialsOf(u.username, calls[k].password), users')
                          = [kind |-> "Ok", user_id |-> u.user_id]
                   /\ \A previous \in AcceptedPasswords(u.username, users)
                                        \ {calls[k].password} :
                          password_validate_credentials(
                              CredentialsOf(u.username, previous), users')
                              = [kind |-> "InvalidCredentials", user_id |-> 0]
              ELSE u \in users']_vars

\* change_password has replaced the hash of user a, whose password was p,
\* by a hash of q with a salt of its own
C20_Witness ==
    /\ IsLast("change_password") /\ last.result = "Ok"
    /\ last.password = <<"q">>
    /\ \E u \in users :
          /\ u.user_id = last.user_id
          /\ u.username = <<"a">>
          /\ u.password_hash = last.password_hash
          /\ u.password_hash[2] # "s0"

----------------------------------------------------------------------------
(* Properties of the issue, of the fan-out and of the responses *)

\* the issue has a title, an html body and a text body, none of them empty
Complete(json) ==
    /\ json.has_title /\ json.has_content
    /\ json.title # <<>> /\ json.html # <<>> /\ json.text # <<>>

\* C21: a publish request whose issue lacks the title or the content, or
\* whose title, html body or text body is empty, is answered 400 and sends
\* no email; only an issue with the three fields present and non-empty is
\* fanned out.
C21_IncompleteIssueRejected ==
    /\ \A c \in PublishCalls : c.sent # <<>> => Complete(c.json)
    /\ (IsLast("publish") /\ ~Complete(last.json)) =>
          /\ last.response.status = "400"
          /\ last.sent = <<>>

\* how many times call c has sent to the address, and how many confirmed
\* rows hold it as an address that parses
TimesSent(c, email) == Cardinality({i \in 1..Len(c.sent) : c.sent[i] = email})

ValidConfirmedRows(email) ==
    Cardinality({id \in DOMAIN subscriptions :
                    /\ subscriptions[id].status = "confirmed"
                    /\ subscriptions[id].email = email
                    /\ validate_email(email)})

Addresses(c) ==
    {subscriptions[id].email : id \in DOMAIN subscriptions}
        \cup {c.sent[i] : i \in 1..Len(c.sent)}

SentOncePerValidConfirmedRow(c) ==
    \A email \in Addresses(c) : TimesSent(c, email) = ValidConfirmedRows(email)

\* the call has gone through the whole list of recipients
LoopDone(c) == c.pc = "send_email" /\ c.subscribers = <<>>

\* C22: a publish call that answers 200 has sent exactly once for each
\* confirmed row whose stored address is valid, whatever publish calls came
\* before it: nothing records a delivery, so the same call made again sends
\* to each of them again.
C22_EachSuccessfulPublishSendsToAll ==
    \A c \in PublishCalls :
       (LoopDone(c) \/ (c.pc = "done" /\ c.response.status = "200")) =>
           SentOncePerValidConfirmedRow(c)

\* a publish call has answered 200 after two sends, and a later one has
\* gone through its loop and sent to the same two again
C22_Witness ==
    /\ IsLast("publish") /\ last.response.status = "200" /\ Len(last.sent) = 2
    /\ \E k \in DOMAIN calls :
          /\ calls[k].kind = "publish" /\ LoopDone(calls[k])
          /\ Len(calls[k].sent) = 2
          /\ \A i \in 1..2 : TimesSent(calls[k], last.sent[i]) = 1

\* C23: the response of a failing register or publish call carries its
\* status, and the challenge header when the status is 401, and nothing
\* else: its body holds no text of the error or of its causes.
C23_ResponsesExposeOnlyKind ==
    /\ (IsLast("subscribe") /\ last.response \in {"400", "500"}) =>
          last.response_body = <<>>
    /\ (IsLast("publish") /\ last.response.status \in {"400", "401", "500"}) =>
          /\ last.response_body = <<>>
          /\ last.response.www_authenticate # "none" => last.response.status = "401"

\* what the tests' get_link finds in a body: the pieces from the base url
\* up to the piece that starts with the space or the quote that ends a URL
EndsUrl == {" to confirm your subscription.", "\"</a> to confirm your subscription."}

get_link(body) ==
    LET starts == {i \in 1..Len(body) : body[i] = "http://127.0.0.1"}
        first == CHOOSE i \in starts : \A j \in starts : i <= j
        ends == {i \in first..Len(body) : body[i] \in EndsUrl}
        end == CHOOSE i \in ends : \A j \in ends : i <= j
    IN  IF starts = {} \/ {i \in 1..Len(body) : i > first /\ body[i] \in EndsUrl} = {}
        THEN <<>>
        ELSE SubSeq(body, first, end - 1)

\* the link is {base_url}/subscriptions/confirm?subscription_token={token}
\* for a token of 25 characters that the store binds to the subscriber
LinksTo(link, subscriber_id) ==
    /\ Len(link) = 27
    /\ link[1] = "http://127.0.0.1"
    /\ link[2] = "/subscriptions/confirm?subscription_token="
    /\ [subscription_token |-> SubSeq(link, 3, 27), subscriber_id |-> subscriber_id]
           \in subscription_tokens

\* C24: the confirmation email that register sends holds the link
\* {base_url}/subscriptions/confirm?subscription_token={token}, where token
\* is the token of 25 characters that the same call has committed for its
\* subscriber, and its html body and its text body hold the same link.
C24_EmailLinksToCommittedToken ==
    (IsLast("subscribe") /\ last.sent # <<>>) =>
        /\ Len(last.sent) = 1
        /\ last.sent[1].to = subscriptions[last.subscriber_id].email
        /\ get_link(last.sent[1].html_body) = get_link(last.sent[1].text_body)
        /\ LinksTo(get_link(last.sent[1].text_body), last.subscriber_id)
        /\ SubSeq(get_link(last.sent[1].text_body), 3, 27) = last.subscription_token
        /\ \A t \in TokensOf(last.subscriber_id) :
              t.subscription_token = last.subscription_token

\* register has answered 200 after sending the email to a subscriber who
\* registers for the second time, while the store holds other tokens
C24_Witness ==
    /\ IsLast("subscribe") /\ last.response = "200" /\ Len(last.sent) = 1
    /\ Len(last.subscription_token) = 25
    /\ \E t \in subscription_tokens : t.subscriber_id # last.subscriber_id
    /\ \E id \in DOMAIN subscriptions :
          id # last.subscriber_id /\ subscriptions[id].email = last.new_subscriber.email

----------------------------------------------------------------------------
(* Properties of login and login_form *)

InvalidLogin(credentials) ==
    ~\E u \in users :
        /\ u.username = credentials.username
        /\ u.password_hash = hash_password(credentials.password, u.password_hash[2])

\* C26: a login with invalid credentials answers 303 with Location /login
\* and queues the message "Authentication Failed"; GET /login shows the
\* queued messages and leaves none for the GET /login after it.
C26_FailedLoginFlashesOnce ==
    /\ (/\ IsLast("login")
        /\ InvalidLogin(last.credentials)
        /\ last.failed_at \notin {"get_stored_credentials", "spawn_blocking"}) =>
          /\ last.response = [status |-> "303", location |-> "/login"]
          /\ last.flash = <<"Authentication Failed">>
    /\ IsLast("login_form") =>
          /\ \A i \in 1..Len(last.flash_messages) :
                last.error_html[i] = <<"<p><i>", last.flash_messages[i], "</i></p>">>
          /\ Len(last.error_html) = Len(last.flash_messages)
          /\ browser.flash = <<>>

----------------------------------------------------------------------------
(* Properties of validate_credentials and of the order of publish *)

\* the call has returned a user id
ReturnsUserId(c) == c.pc = "done" /\ c.result.kind = "Ok"

\* C27: validate_credentials returns a user id only when its query found a
\* row for the username and the password verifies against the hash of that
\* row, and the id is the user_id of that row; when the query found no row
\* it returns no user id, also for the password of the reference hash.
C27_UserIdOnlyForStoredRow ==
    IsLast("validate_credentials") =>
        /\ ReturnsUserId(last) =>
              /\ last.found
              /\ last.result.user_id = last.user_id
              /\ \E u \in users : /\ u.username = last.credentials.username
                                  /\ u.user_id = last.result.user_id
              /\ last.expected_password_hash =
                     hash_password(last.credentials.password,
                                   last.expected_password_hash[2])
        /\ (last.pc = "done" /\ ~last.found) =>
              /\ last.result.kind \in {"InvalidCredentials", "UnexpectedError"}
              /\ last.result.user_id = 0

\* a username without a row was given the password of the reference hash:
\* the verification ran and succeeded, and no user id was returned
C27_Witness ==
    /\ IsLast("validate_credentials") /\ last.module = "password"
    /\ ~last.found /\ last.credentials.username = <<"z">>
    /\ last.expected_password_hash =
           hash_password(last.credentials.password, last.expected_password_hash[2])
    /\ last.steps = <<"get_stored_credentials", "spawn_blocking",
                      "PasswordHash::new", "verify_password">>
    /\ last.result = [kind |-> "InvalidCredentials", user_id |-> 0]

\* the credentials of the call were decoded and a user of the store was
\* found for them
Authenticated(c) ==
    /\ c.credentials.kind = "Ok"
    /\ \E u \in users : u.user_id = c.user_id /\ u.username = c.credentials.username

\* the call has got as far as reading the subscribers
ReachedFanOut(c) ==
    \/ c.pc \in {"get_confirmed_subscribers", "send_email"}
    \/ c.failed_at \in {"get_confirmed_subscribers", "send_email"}
    \/ c.subscribers # <<>> \/ c.sent # <<>> \/ c.skipped # 0
    \/ c.response.status = "200"

\* C28: a publish call reads the confirmed subscribers and sends only after
\* its credentials were decoded and validated, so a call that ends with 401
\* has read no subscriber and sent no email.
C28_AuthenticationPrecedesFanOut ==
    \A c \in PublishCalls :
        /\ ReachedFanOut(c) => Authenticated(c)
        /\ c.response.status = "401" =>
              /\ ~ReachedFanOut(c)
              /\ c.failed_at \in {"basic_authentication", "validate_credentials"}

\* on a store with confirmed subscribers, a call whose credentials were
\* decoded and then refused has ended with 401, while another call sends
C28_Witness ==
    /\ ConfirmedEmails # {}
    /\ IsLast("publish") /\ last.response.status = "401"
    /\ last.failed_at = "validate_credentials" /\ last.credentials.kind = "Ok"
    /\ \E k \in DOMAIN calls : calls[k].kind = "publish" /\ calls[k].sent # <<>>

\* the step is a step of a publish call: one arrives, goes on or returns
PublishStep ==
    \/ \E k \in DOMAIN calls :
          /\ calls[k].kind = "publish"
          /\ k \notin DOMAIN calls' \/ calls'[k] # calls[k]
    \/ \E k \in DOMAIN calls' \ DOMAIN calls : calls'[k].kind = "publish"
    \/ received' # received /\ calls' = calls /\ last'.kind = "publish"

\* C29: no step of a publish call changes the store, whatever the call
\* ends with: the subscribers and their statuses, the confirmation tokens
\* and the credentials of the users are after the step what they were
\* before it.
C29_PublishLeavesStore ==
    [][PublishStep =>
          /\ subscriptions' = subscriptions
          /\ subscription_tokens' = subscription_tokens
          /\ users' = users]_vars

\* every call has returned, the last a publish call that answered 200 after
\* a send, on a store that a register call has written to
C29_Witness ==
    /\ IsLast("publish") /\ last.response.status = "200" /\ last.sent # <<>>
    /\ received = MaxCalls /\ calls = NoCalls
    /\ Registered # {}
    /\ \A id \in DOMAIN subscriptions \ Registered :
          subscriptions[id].status = "confirmed" /\ TokensOf(id) # {}

\* the addresses a call has sent to, followed by those it has still to
\* send to
Recipients(c) ==
    LET valid == SelectSeq(c.subscribers, LAMBDA r : r.kind = "Ok")
    IN  c.sent \o [i \in 1..Len(valid) |-> valid[i].value]

TimesIn(seq, x) == Cardinality({i \in 1..Len(seq) : seq[i] = x})

====
